---- MODULE Spec2Model ----
(***************************************************************************)
(* A model of new_tracks.py: the run of main() over a ReleaseRadar object. *)
(* The catalog client (spotipy) is the environment: every response it      *)
(* gives is drawn from a bounded set at the step that asks for it.         *)
(***************************************************************************)
EXTENDS Integers, Sequences, FiniteSets, TLC

\* ------------------------------------------------------------------ bounds

\* Artists in a cohort (rows of the artists file, or hits of the genre search)
\* in a run of get_new_tracks alone.
NumArtists == 2
\* Artists in a cohort in a whole run of main().
MainArtists == 1
\* Album ids of the catalog.
NumAlbums == 5
\* Pages the catalog serves for one artist's album listing.
MaxPages == 2
\* Largest value of --days.
MaxDays == 2
\* Longest input of sort_tracks in SortSpec.
MaxSortLen == 3
\* Rows of a tracks file.
MaxRows == 1

\* new_tracks.py:307 (and 246): the page size of every listing request.
batch_size == 50

\* ------------------------------------------------------------------ strings
\* A string is the sequence of its code points, so that comparisons and
\* str.lower() are computed and not assumed.

RECURSIVE SeqLess(_, _)
\* Python's < on two strings (or tuples of integers): lexicographic.
SeqLess(s, t) ==
    IF t = <<>> THEN FALSE
    ELSE IF s = <<>> THEN TRUE
    ELSE IF s[1] # t[1] THEN s[1] < t[1]
    ELSE SeqLess(Tail(s), Tail(t))

\* str.lower() on ASCII.
Lower(s) == [i \in DOMAIN s |-> IF s[i] \in 65..90 THEN s[i] + 32 ELSE s[i]]

\* `sub in s` for strings.
Contains(sub, s) ==
    \E i \in 0..(Len(s) - Len(sub)) : SubSeq(s, i + 1, i + Len(sub)) = sub

\* The code points of the album_type values of the catalog.
Chars(t) ==
    CASE t = "single" -> <<115, 105, 110, 103, 108, 101>>
      [] t = "album" -> <<97, 108, 98, 117, 109>>
      [] t = "compilation" -> <<99, 111, 109, 112, 105, 108, 97, 116, 105, 111, 110>>

navid == <<110, 97, 118, 105, 100>>

\* ------------------------------------------------------------------ dates
\* A date is its proleptic Gregorian ordinal, as datetime.date.toordinal().

IsLeap(y) == y % 4 = 0 /\ (y % 100 # 0 \/ y % 400 = 0)

DaysInMonth(y, m) ==
    IF m = 2 THEN (IF IsLeap(y) THEN 29 ELSE 28)
    ELSE IF m \in {4, 6, 9, 11} THEN 30 ELSE 31

DaysBeforeYear(y) ==
    (y - 1) * 365 + ((y - 1) \div 4) - ((y - 1) \div 100) + ((y - 1) \div 400)

RECURSIVE DaysBeforeMonth(_, _)
DaysBeforeMonth(y, m) ==
    IF m = 1 THEN 0 ELSE DaysBeforeMonth(y, m - 1) + DaysInMonth(y, m - 1)

\* date(y, m, d).toordinal()
ToOrdinal(y, m, d) == DaysBeforeYear(y) + DaysBeforeMonth(y, m) + d

\* The years the model's dates fall in.
Years == {2026, 2027}

Calendar ==
    {ymd \in Years \X (1..12) \X (1..31) : ymd[3] <= DaysInMonth(ymd[1], ymd[2])}

\* date.fromordinal(n), as <<year, month, day>>.
FromOrdinal(n) == CHOOSE ymd \in Calendar : ToOrdinal(ymd[1], ymd[2], ymd[3]) = n

\* date.weekday(): Monday = 0 ... Sunday = 6.
Weekday(n) == (n + 6) % 7

\* datetime.strptime(release_date_str, fmt).date() for the three precisions;
\* the string is the sequence of its numeric fields.
ResolveReleaseDate(str, precision) ==
    CASE precision = "day" -> ToOrdinal(str[1], str[2], str[3])
      [] precision = "month" -> ToOrdinal(str[1], str[2], 1)
      [] precision = "year" -> ToOrdinal(str[1], 1, 1)

\* ------------------------------------------------------------------ sorting

Min(a, b) == IF a < b THEN a ELSE b

\* sorted(seq, key=..., reverse=reverse), key[i] being the key of seq[i] as a
\* sequence of integers. Python's sort is stable, and stays stable under
\* reverse=True: elements with equal keys keep their input order.
StableSort(seq, key, reverse) ==
    LET n == Len(seq)
        Before(j, i) ==
            IF reverse THEN SeqLess(key[i], key[j]) ELSE SeqLess(key[j], key[i])
        rank == [i \in 1..n |->
                    Cardinality({j \in 1..n : Before(j, i) \/ (key[j] = key[i] /\ j < i)}) + 1]
    IN [p \in 1..n |-> seq[CHOOSE i \in 1..n : rank[i] = p]]

\* A track of the list is a dict (a row of a tracks file read by csv.reader is
\* a list, modelled as a record with the one field "cells").
IsDict(x) == "id" \in DOMAIN x

\* key=lambda x: (x["release_date"], x["artist"].lower())
DateArtistKey(x) == <<x.release_date>> \o Lower(x.artist)

\* key=lambda x: x["album_type"].lower()
AlbumTypeKey(x) == Lower(Chars(x.album_type))

\* Mutant of SortByAlbumType: the second sorted() without reverse=True.
SortByAlbumTypeAscending(seq) ==
    StableSort(seq, [i \in DOMAIN seq |-> AlbumTypeKey(seq[i])], FALSE)

\* The second sorted() of sort_tracks: by album type, reverse=True.
SortByAlbumType(seq) ==
    StableSort(seq, [i \in DOMAIN seq |-> AlbumTypeKey(seq[i])], TRUE)

\* The first sorted() of sort_tracks: by date then artist, in the chosen direction.
SortByDate(seq, sort_reverse) ==
    StableSort(seq, [i \in DOMAIN seq |-> DateArtistKey(seq[i])], sort_reverse)

\* ReleaseRadar.sort_tracks: [raised, value]. Subscripting a list row with a
\* string raises TypeError inside the first sorted().
sort_tracks(order, tracklist) ==
    IF order \notin {"ascending", "descending"}
    THEN [raised |-> FALSE, value |-> tracklist]
    ELSE IF \E i \in DOMAIN tracklist : ~IsDict(tracklist[i])
    THEN [raised |-> TRUE, value |-> <<>>]
    ELSE [raised |-> FALSE,
          value |-> SortByAlbumType(SortByDate(tracklist, order = "descending"))]

\* ------------------------------------------------------------------ catalog
\* What the catalog client answers. Album attributes are a function of the
\* album id (the same album has the same attributes under every artist).

Albums == 1..NumAlbums

AlbumTable ==
    << [album_type |-> "single", name |-> <<85, 110, 111>>,
        release_date |-> <<2027, 1, 2>>, release_date_precision |-> "day"],
       [album_type |-> "album", name |-> <<34, 68, 111, 115, 34>>,
        release_date |-> <<2027, 1>>, release_date_precision |-> "month"],
       [album_type |-> "compilation", name |-> <<84, 114, 101, 115>>,
        release_date |-> <<2027, 1, 2>>, release_date_precision |-> "day"],
       [album_type |-> "single", name |-> <<67, 117, 97, 116, 114, 111>>,
        release_date |-> <<2027>>, release_date_precision |-> "year"],
       [album_type |-> "album", name |-> <<70, 101, 108, 105, 122, 32, 78, 97, 118, 105, 100, 97, 100>>,
        release_date |-> <<2027, 1, 2>>, release_date_precision |-> "day"] >>

\* The catalog's albums by id: the table's rows, taken in turn.
AlbumCatalog ==
    [a \in Albums |-> LET row == AlbumTable[((a - 1) % Len(AlbumTable)) + 1]
                      IN [id |-> a, name |-> row.name, album_type |-> row.album_type,
                          release_date |-> row.release_date,
                          release_date_precision |-> row.release_date_precision]]

\* An item of an album listing.
Album(a) == AlbumCatalog[a]

ArtistNames == << <<98>>, <<65>> >>

ArtistName(i) == ArtistNames[((i - 1) % Len(ArtistNames)) + 1]

\* An artist of the cohort.
Artist(i) == [id |-> i, name |-> ArtistName(i)]

\* sp.album(album_id)["tracks"]["items"]: the album's own track and the next
\* album's, so that a track id is reachable through two albums.
AlbumTracks(a) ==
    LET t(i) == [id |-> i, artist |-> ArtistName(i)]
    IN << t(a), t((a % NumAlbums) + 1) >>

\* The items of a listing page: n albums, cycling through the ids from start.
PageOf(start, n) == [i \in 1..n |-> ((start + i - 2) % NumAlbums) + 1]

\* The first page of a listing: the empty page, every page of one album, and
\* the pages of batch_size - 1 and of batch_size albums.
PageItems ==
    {PageOf(start, 1) : start \in Albums}
        \cup {PageOf(1, n) : n \in {0, batch_size - 1, batch_size}}

\* The later pages. They follow a full first page, which holds every album of
\* the catalog: which album a later page of one album holds changes nothing.
LaterPageItems == {PageOf(1, n) : n \in {0, 1, batch_size - 1, batch_size}}

\* The paging objects the catalog may answer with once `served` pages of the
\* listing were served: a listing has at most MaxPages pages, and the last one
\* has no next cursor.
ServerPages(served) ==
    [items : IF served = 0 THEN PageItems ELSE LaterPageItems,
     next : IF served + 1 < MaxPages THEN BOOLEAN ELSE {FALSE}]

\* ------------------------------------------------------------------ state

VARIABLES
    pc,              \* position of the run in main() / get_new_tracks()
    error,           \* the exception that ended the run, or "none"
    clock,           \* environment: the date datetime.today() returns
    sort_order,      \* --sort-order
    dry_run,         \* --dry-run
    days,            \* self.days
    has_playlist_id, \* "playlist_id" in self.params
    n_artists,       \* environment: rows of the artists file / hits of the search
    attrs,           \* the attributes set on the object after __init__
    today,           \* self.today
    threshold_date,  \* self.threshold_date
    playlist_name,   \* self.playlist_name
    artist_list,     \* self.artist_list
    idx,             \* artists of the cohort already handled by the for loop
    results,         \* get_new_tracks: the last paging object
    albums,          \* get_new_tracks: the albums of the current artist
    pages,           \* log: the paging objects fetched for the current artist
    searched_ids,    \* get_new_tracks: album ids already looked at
    added_ids,       \* get_new_tracks: track ids already seen
    new_tracks,      \* get_new_tracks / main: the tracks found
    track_list,      \* self.track_list
    album_calls,     \* log: the album ids passed to sp.album()
    date_evals,      \* log: the album ids whose release date was resolved
    listed,          \* log: the album ids the for-album loop has met
    relisted,        \* log: the album ids met again under a later artist
    playlist_items,  \* destination playlist: its track ids
    playlist_title,  \* destination playlist: its name
    api_calls,       \* log: playlist_replace_items / playlist_change_details calls
    csv_file         \* the report file written by update_csv, <<>> when none

vars ==
    << pc, error, clock, sort_order, dry_run, days,
       has_playlist_id, n_artists, attrs, today, threshold_date, playlist_name, artist_list,
       idx, results, albums, pages, searched_ids, added_ids, new_tracks,
       track_list, album_calls, date_evals, listed, relisted, playlist_items,
       playlist_title, api_calls, csv_file >>

config == << clock, sort_order, dry_run, has_playlist_id, n_artists >>

threshold_vars == << attrs, today, threshold_date, playlist_name, days >>

search_vars ==
    << searched_ids, added_ids, new_tracks, album_calls, date_evals, listed,
       relisted >>

paging_vars == << results, albums, pages >>

playlist_vars == << playlist_items, playlist_title, api_calls >>

\* The destination playlist before the run.
PriorItems == << 0 >>

PriorTitle == "Old"

NoPage == [items |-> <<>>, next |-> FALSE]

\* The date of the run: Sunday 2027-01-03. With --days 0, 1, 2 the threshold
\* dates are Friday 2026-12-25, 2027-01-02 and 2027-01-01.
Clocks == {ToOrdinal(2027, 1, 3)}

\* The state after ReleaseRadar.__init__ and initialize_spotipy_client, but
\* for the inputs in `config` and `days`.
Fresh ==
    /\ error = "none"
    /\ attrs = {}
    /\ today = 0
    /\ threshold_date = 0
    /\ playlist_name = <<>>
    /\ artist_list = <<>>
    /\ idx = 0
    /\ results = NoPage
    /\ albums = <<>>
    /\ pages = <<>>
    /\ searched_ids = <<>>
    /\ added_ids = <<>>
    /\ new_tracks = <<>>
    /\ track_list = <<>>
    /\ album_calls = <<>>
    /\ date_evals = <<>>
    /\ listed = {}
    /\ relisted = {}
    /\ playlist_items = PriorItems
    /\ playlist_title = PriorTitle
    /\ api_calls = <<>>
    /\ csv_file = <<>>

Init ==
    /\ pc = "main"
    /\ clock \in Clocks
    /\ sort_order \in {"ascending", "descending", "none"}
    /\ dry_run \in BOOLEAN
    /\ days \in 0..MaxDays
    /\ has_playlist_id \in BOOLEAN
    /\ n_artists \in 0..MainArtists
    /\ Fresh

\* get_new_tracks is entered, main() having found no tracks file.
SearchInit ==
    /\ pc = "get_threshold_date"
    /\ clock \in Clocks
    /\ sort_order = "descending"
    /\ dry_run = FALSE
    /\ days \in 0..MaxDays
    /\ has_playlist_id = TRUE
    /\ n_artists \in 0..NumArtists
    /\ Fresh

\* ------------------------------------------------------------------ main: load tracks

\* A row of the tracks file as csv.reader gives it: a list, not a dict.
CsvRow(i) == [cells |-> <<i>>]

\* main(), "Load tracks": a tracks file that opens bypasses the search; with
\* no --tracks, or FileNotFoundError, get_new_tracks() runs. The option and
\* the outcome of open() are inputs of this step: nothing reads them later.
LoadTracks ==
    /\ pc = "main"
    /\ \E tracks \in BOOLEAN, readable \in BOOLEAN, rows \in 0..MaxRows :
          IF tracks /\ readable
          THEN /\ new_tracks' = [i \in 1..rows |-> CsvRow(i)]
               /\ pc' = "sort_tracks"
          ELSE /\ new_tracks' = new_tracks
               /\ pc' = "get_threshold_date"
    /\ UNCHANGED << error, config, threshold_vars, artist_list, idx, paging_vars,
                    searched_ids, added_ids, track_list, album_calls, date_evals,
                    listed, relisted, playlist_vars, csv_file >>

\* ------------------------------------------------------------------ get_threshold_date

\* Mutant of FridayOffset: % as a truncating remainder (negative before Friday).
FridayOffsetTruncated(weekday) ==
    (IF weekday < 4 THEN 0 - ((4 - weekday) % 7) ELSE (weekday - 4) % 7) + 7

\* "Days since second to last Friday": ((weekday - 4) % 7) + 7.
FridayOffset(weekday) == ((weekday - 4) % 7) + 7

\* self.days after get_threshold_date.
LookbackDays(d, t) == IF d = 0 THEN FridayOffset(Weekday(t)) ELSE d

\* self.today - timedelta(days=self.days)
ThresholdOf(d, t) == t - LookbackDays(d, t)

\* f"New {genre} from {m:d}-{d:02d} to {m:d}-{d:02d}": the fields it is built from.
PlaylistName(threshold, t) ==
    << "New", "Genre", "from", FromOrdinal(threshold)[2], FromOrdinal(threshold)[3],
       "to", FromOrdinal(t)[2], FromOrdinal(t)[3] >>

\* ReleaseRadar.get_threshold_date, called first thing by get_new_tracks.
GetThresholdDate ==
    /\ pc = "get_threshold_date"
    /\ today' = clock
    /\ days' = LookbackDays(days, clock)
    /\ threshold_date' = ThresholdOf(days, clock)
    /\ playlist_name' = PlaylistName(ThresholdOf(days, clock), clock)
    /\ attrs' = attrs \cup {"today", "threshold_date", "playlist_name"}
    /\ pc' = "load_artists"
    /\ UNCHANGED << error, config, artist_list, idx, paging_vars, search_vars,
                    track_list, playlist_vars, csv_file >>

\* ------------------------------------------------------------------ artists

\* The first k artists of the catalog: the rows of an artists file, or the
\* hits of a genre search.
ArtistRows(k) == [i \in 1..k |-> Artist(i)]

RECURSIVE SearchLoop(_, _, _)
\* The while loop of get_artists: pages of batch_size hits from `offset`, until
\* a page comes back short. `hits` is everything the search matches.
SearchLoop(hits, offset, found) ==
    LET artists_batch == SubSeq(hits, offset + 1, Min(offset + batch_size, Len(hits)))
    IN IF Len(artists_batch) < batch_size
       THEN found \o artists_batch
       ELSE SearchLoop(hits, offset + batch_size, found \o artists_batch)

\* ReleaseRadar.get_artists: [raised, value]. Writing the artists CSV reads
\* self.artist_list[0], an IndexError on an empty list.
get_artists(hits) ==
    LET found == SearchLoop(hits, 0, <<>>)
        sorted == StableSort(found, [i \in DOMAIN found |-> Lower(found[i].name)], FALSE)
    IN IF sorted = <<>>
       THEN [raised |-> TRUE, value |-> <<>>]
       ELSE [raised |-> FALSE, value |-> sorted]

\* get_new_tracks, "Load artists": from the file when it opens, else by search.
\* The option --artists and the outcome of open() are inputs of this step.
LoadArtists ==
    /\ pc = "load_artists"
    /\ \E artists \in BOOLEAN, readable \in BOOLEAN :
          IF artists /\ readable
          THEN /\ artist_list' = ArtistRows(n_artists)
               /\ attrs' = attrs \cup {"artist_list"}
               /\ pc' = "for_artist"
               /\ error' = error
          ELSE LET found == get_artists(ArtistRows(n_artists))
               IN IF found.raised
                  THEN /\ artist_list' = <<>>
                       /\ attrs' = attrs \cup {"artist_list"}
                       /\ pc' = "raised"
                       /\ error' = "IndexError"
                  ELSE /\ artist_list' = found.value
                       /\ attrs' = attrs \cup {"artist_list"}
                       /\ pc' = "for_artist"
                       /\ error' = error
    /\ UNCHANGED << config, days, today, threshold_date, playlist_name, idx,
                    paging_vars, search_vars, track_list, playlist_vars, csv_file >>

\* ------------------------------------------------------------------ album listing

\* Mutant of FinalBatch: the break on a short page left out.
FinalBatchNever(items) == FALSE

\* len(results["items"]) < batch_size: "This was the final batch of results".
FinalBatch(items) == Len(items) < batch_size

\* The first page of the current artist's albums: empty -> continue with the
\* next artist; full -> follow the cursor; else go through the albums.
ArtistAlbums ==
    /\ pc = "for_artist"
    /\ idx < Len(artist_list)
    /\ \E page \in ServerPages(0) :
          /\ results' = page
          /\ pages' = << page >>
          /\ albums' = page.items
          /\ IF Len(page.items) = 0
             THEN pc' = "for_artist" /\ idx' = idx + 1
             ELSE IF Len(page.items) = batch_size
             THEN pc' = "next_page" /\ idx' = idx
             ELSE pc' = "for_album" /\ idx' = idx
    /\ UNCHANGED << error, config, threshold_vars, artist_list, search_vars,
                    track_list, playlist_vars, csv_file >>

\* One turn of the while loop: sp.next(results) is None when the paging object
\* has no next cursor, else the next page, which is appended.
NextPage ==
    /\ pc = "next_page"
    /\ IF ~results.next
       THEN /\ pc' = "for_album"
            /\ UNCHANGED paging_vars
       ELSE \E page \in ServerPages(Len(pages)) :
               /\ results' = page
               /\ pages' = Append(pages, page)
               /\ albums' = albums \o page.items
               /\ pc' = IF FinalBatch(page.items) THEN "for_album" ELSE "next_page"
    /\ UNCHANGED << error, config, threshold_vars, artist_list, idx, search_vars,
                    track_list, playlist_vars, csv_file >>

\* ------------------------------------------------------------------ albums to tracks

\* str.replace('"', "")
StripQuotes(s) == SelectSeq(s, LAMBDA c : c # 34)

\* "compilation" albums are skipped.
IsCompilation(album) == album.album_type = "compilation"

\* The albums of the catalog with "navid" in album["name"].lower().
ChristmasNames == {AlbumCatalog[a].name : a \in {b \in Albums : Contains(navid, Lower(AlbumCatalog[b].name))}}

\* "navid" in album["name"].lower(): Christmas albums are skipped.
IsChristmas(album) == album.name \in ChristmasNames

\* Mutant of NotSearched: the check on searched_ids left out.
NeverSearched(album_id, searched) == TRUE

\* album_id not in searched_ids
NotSearched(album_id, searched) == \A i \in DOMAIN searched : searched[i] # album_id

\* Mutant of IsNew: > for >=.
IsNewStrict(release_date, threshold) == release_date > threshold

\* release_date >= self.threshold_date
IsNew(release_date, threshold) == release_date >= threshold

RECURSIVE AddIds(_, _)
\* if track_id not in added_ids: added_ids.append(track_id), for each track.
AddIds(added, ids) ==
    IF ids = <<>> THEN added
    ELSE AddIds(IF \E i \in DOMAIN added : added[i] = Head(ids)
                THEN added ELSE Append(added, Head(ids)),
                Tail(ids))

\* song_dict (title and url left out: nothing reads them).
SongDict(track, album, release_date) ==
    [artist |-> StripQuotes(track.artist),
     album |-> StripQuotes(album.name),
     album_type |-> album.album_type,
     release_date |-> release_date,
     id |-> track.id]

\* The tracks loop: every track of the album detail is appended to new_tracks.
ExpandAlbum(found, details, album, release_date) ==
    found \o [i \in DOMAIN details |-> SongDict(details[i], album, release_date)]

\* Mutant of SearchAlbum: the album is marked searched only once it is found new.
SearchAlbumMarkNew(album, threshold, st) ==
    LET release_date ==
            ResolveReleaseDate(album.release_date, album.release_date_precision)
        seen == [st EXCEPT !.date_evals = Append(@, album.id)]
        details == AlbumTracks(album.id)
    IN IF IsNew(release_date, threshold)
       THEN [seen EXCEPT
                !.searched_ids = Append(@, album.id),
                !.album_calls = Append(@, album.id),
                !.added_ids = AddIds(@, [i \in DOMAIN details |-> details[i].id]),
                !.new_tracks = ExpandAlbum(@, details, album, release_date)]
       ELSE seen

\* An album met for the first time: it is marked searched, its release date is
\* resolved, and if it is new its detail is fetched and expanded into tracks.
SearchAlbum(album, threshold, st) ==
    LET release_date ==
            ResolveReleaseDate(album.release_date, album.release_date_precision)
        seen == [st EXCEPT !.searched_ids = Append(@, album.id),
                            !.date_evals = Append(@, album.id)]
        details == AlbumTracks(album.id)
    IN IF IsNew(release_date, threshold)
       THEN [seen EXCEPT
                !.album_calls = Append(@, album.id),
                !.added_ids = AddIds(@, [i \in DOMAIN details |-> details[i].id]),
                !.new_tracks = ExpandAlbum(@, details, album, release_date)]
       ELSE seen

\* The album is skipped with `continue`, or was searched before.
Skipped(album, searched) ==
    \/ IsCompilation(album)
    \/ IsChristmas(album)
    \/ ~NotSearched(album.id, searched)

RECURSIVE ForAlbum(_, _, _, _, _)
\* for album in albums, on the search state st: the albums lo..hi of the list
\* in listing order, the loop over lo..hi being the loop over its first half
\* followed by the loop over its second half (searched_ids only grows: the
\* test makes the first half's state a value before the second half starts).
ForAlbum(albumlist, lo, hi, threshold, st) ==
    IF lo > hi THEN st
    ELSE IF lo = hi
    THEN IF Skipped(Album(albumlist[lo]), st.searched_ids)
         THEN st
         ELSE SearchAlbum(Album(albumlist[lo]), threshold, st)
    ELSE LET mid == (lo + hi) \div 2
             half == ForAlbum(albumlist, lo, mid, threshold, st)
         IN IF Len(half.searched_ids) >= Len(st.searched_ids)
            THEN ForAlbum(albumlist, mid + 1, hi, threshold, half)
            ELSE st

\* The for-album loop over the current artist's albums, then the next artist
\* (whose first request overwrites results and albums: they are cleared here).
ProcessAlbums ==
    /\ pc = "for_album"
    /\ LET st == ForAlbum(albums, 1, Len(albums), threshold_date,
                          [searched_ids |-> searched_ids, added_ids |-> added_ids,
                           new_tracks |-> new_tracks, album_calls |-> album_calls,
                           date_evals |-> date_evals])
       IN /\ searched_ids' = st.searched_ids
          /\ added_ids' = st.added_ids
          /\ new_tracks' = st.new_tracks
          /\ album_calls' = st.album_calls
          /\ date_evals' = st.date_evals
    /\ listed' = listed \cup {albums[i] : i \in DOMAIN albums}
    /\ relisted' = relisted \cup (listed \cap {albums[i] : i \in DOMAIN albums})
    /\ idx' = idx + 1
    /\ pc' = "for_artist"
    /\ results' = NoPage
    /\ albums' = <<>>
    /\ pages' = <<>>
    /\ UNCHANGED << error, config, threshold_vars, artist_list, track_list,
                    playlist_vars, csv_file >>

\* The cohort is exhausted: get_new_tracks returns new_tracks to main().
ReturnNewTracks ==
    /\ pc = "for_artist"
    /\ idx = Len(artist_list)
    /\ pc' = "sort_tracks"
    /\ UNCHANGED << error, config, threshold_vars, artist_list, idx, paging_vars,
                    search_vars, track_list, playlist_vars, csv_file >>

\* ------------------------------------------------------------------ main: sort, report, playlist

\* rr.track_list = rr.sort_tracks(new_tracks)
SortTracks ==
    /\ pc = "sort_tracks"
    /\ LET sorted == sort_tracks(sort_order, new_tracks)
       IN IF sorted.raised
          THEN /\ pc' = "raised"
               /\ error' = "TypeError"
               /\ UNCHANGED << track_list, attrs >>
          ELSE /\ pc' = "update"
               /\ error' = error
               /\ track_list' = sorted.value
               /\ attrs' = attrs \cup {"track_list"}
    /\ UNCHANGED << config, days, today, threshold_date, playlist_name, artist_list,
                    idx, paging_vars, search_vars, playlist_vars, csv_file >>

\* main(): an empty track list ends the run, "No new tracks found".
NoNewTracks ==
    /\ pc = "update"
    /\ Len(track_list) = 0
    /\ pc' = "done"
    /\ UNCHANGED << error, config, threshold_vars, artist_list, idx, paging_vars,
                    search_vars, track_list, playlist_vars, csv_file >>

\* Mutant of AfterCsv: --dry-run not looked at.
AfterCsvAlways(dry) == "update_playlist"

\* After update_csv, main() goes on to update_playlist unless --dry-run.
AfterCsv(dry) == IF dry THEN "done" ELSE "update_playlist"

\* ReleaseRadar.update_csv, called by main() on a non-empty list. Reading
\* self.playlist_name before get_threshold_date has set it, and .keys() of a
\* row that is a list, raise AttributeError.
UpdateCsv ==
    /\ pc = "update"
    /\ Len(track_list) # 0
    /\ IF "playlist_name" \notin attrs \/ ~IsDict(track_list[1])
       THEN /\ pc' = "raised"
            /\ error' = "AttributeError"
            /\ csv_file' = csv_file
       ELSE /\ pc' = AfterCsv(dry_run)
            /\ error' = error
            /\ csv_file' = << playlist_name, track_list >>
    /\ UNCHANGED << config, threshold_vars, artist_list, idx, paging_vars,
                    search_vars, track_list, playlist_vars >>

\* track_ids = [track["id"] for track in self.track_list]
TrackIds(tracklist) == [i \in DOMAIN tracklist |-> tracklist[i].id]

\* ReleaseRadar.update_playlist: without a playlist id it returns; else the
\* playlist's items are replaced and its details changed.
UpdatePlaylist ==
    /\ pc = "update_playlist"
    /\ IF ~has_playlist_id
       THEN UNCHANGED playlist_vars
       ELSE /\ playlist_items' = TrackIds(track_list)
            /\ playlist_title' = playlist_name
            /\ api_calls' = api_calls \o << "playlist_replace_items",
                                            "playlist_change_details" >>
    /\ pc' = "done"
    /\ UNCHANGED << error, config, threshold_vars, artist_list, idx, paging_vars,
                    search_vars, track_list, csv_file >>

Next ==
    \/ LoadTracks
    \/ GetThresholdDate
    \/ LoadArtists
    \/ ArtistAlbums
    \/ NextPage
    \/ ProcessAlbums
    \/ ReturnNewTracks
    \/ SortTracks
    \/ NoNewTracks
    \/ UpdateCsv
    \/ UpdatePlaylist

Spec == Init /\ [][Next]_vars

\* get_new_tracks alone.
SearchNext ==
    \/ GetThresholdDate
    \/ LoadArtists
    \/ ArtistAlbums
    \/ NextPage
    \/ ProcessAlbums
    \/ ReturnNewTracks

SearchSpec == SearchInit /\ [][SearchNext]_vars

\* ------------------------------------------------------------------ get_threshold_date alone

\* The dates get_threshold_date is run on alone: three weeks over the new year.
ClockWindow == ToOrdinal(2026, 12, 25)..ToOrdinal(2027, 1, 14)

ThresholdInit ==
    /\ pc = "get_threshold_date"
    /\ clock \in ClockWindow
    /\ sort_order = "descending"
    /\ dry_run = FALSE
    /\ days \in 0..MaxDays
    /\ has_playlist_id = TRUE
    /\ n_artists = 0
    /\ Fresh

ThresholdNext == GetThresholdDate

ThresholdSpec == ThresholdInit /\ [][ThresholdNext]_vars

\* ------------------------------------------------------------------ sort_tracks alone

RECURSIVE SeqsUpTo(_, _)
\* The sequences over S of length at most n.
SeqsUpTo(S, n) ==
    IF n = 0 THEN {<<>>}
    ELSE LET shorter == SeqsUpTo(S, n - 1)
         IN shorter \cup {Append(q, x) : q \in shorter, x \in S}

\* The tracks sort_tracks is run on alone: singles and albums of two dates and
\* of two artists, "b" and "A".
SortDicts ==
    [artist : {<<98>>, <<65>>}, album : {<<>>}, album_type : {"single", "album"},
     release_date : {ToOrdinal(2027, 1, 1), ToOrdinal(2027, 1, 2)}, id : {1}]

SortInit ==
    /\ pc = "sort_tracks"
    /\ clock \in Clocks
    /\ sort_order \in {"ascending", "descending", "none"}
    /\ dry_run = FALSE
    /\ days = 0
    /\ has_playlist_id = TRUE
    /\ n_artists = 0
    /\ error = "none"
    /\ attrs = {"today", "threshold_date", "playlist_name", "artist_list"}
    /\ today = 0
    /\ threshold_date = 0
    /\ playlist_name = <<>>
    /\ artist_list = <<>>
    /\ idx = 0
    /\ results = NoPage
    /\ albums = <<>>
    /\ pages = <<>>
    /\ searched_ids = <<>>
    /\ added_ids = <<>>
    /\ new_tracks \in SeqsUpTo(SortDicts, MaxSortLen)
    /\ track_list = <<>>
    /\ album_calls = <<>>
    /\ date_evals = <<>>
    /\ listed = {}
    /\ relisted = {}
    /\ playlist_items = PriorItems
    /\ playlist_title = PriorTitle
    /\ api_calls = <<>>
    /\ csv_file = <<>>

SortNext == SortTracks

SortSpec == SortInit /\ [][SortNext]_vars

\* ------------------------------------------------------------------ properties

Range(seq) == {seq[i] : i \in DOMAIN seq}

NoDup(seq) == \A i, j \in DOMAIN seq : i # j => seq[i] # seq[j]

Count(seq, x) == Cardinality({i \in DOMAIN seq : seq[i] = x})

RECURSIVE CallsTrackIds(_)
\* The track ids of the albums of `calls`, album after album.
CallsTrackIds(calls) ==
    IF calls = <<>> THEN <<>>
    ELSE [i \in DOMAIN AlbumTracks(Head(calls)) |-> AlbumTracks(Head(calls))[i].id]
            \o CallsTrackIds(Tail(calls))

\* The release date the catalog gives for album a, as a date: the exact day,
\* the first day of the month, or January 1 of the year.
ClaimDate(a) ==
    LET str == Album(a).release_date
        precision == Album(a).release_date_precision
    IN IF precision = "day" THEN ToOrdinal(str[1], str[2], str[3])
       ELSE IF precision = "month" THEN ToOrdinal(str[1], str[2], 1)
       ELSE ToOrdinal(str[1], 1, 1)

\* C1: in a run of get_new_tracks no album detail is fetched twice, however
\* often the album id is listed, and the returned tracks are exactly the tracks
\* of the fetched albums, each album's tracks once.
C1_AlbumExpandedOnce ==
    /\ NoDup(album_calls)
    /\ [i \in DOMAIN new_tracks |-> new_tracks[i].id] = CallsTrackIds(album_calls)

\* C1 witness: get_new_tracks returns after an album listed under two artists
\* was expanded.
C1_Witness ==
    /\ pc = "sort_tracks"
    /\ Len(artist_list) = 2
    /\ \E a \in relisted : a \in Range(album_calls)

\* C2: every returned track carries the resolved release date of an expanded
\* album, on or after the threshold date; an album whose date was looked at
\* is expanded exactly when that date is on or after the threshold date.
C2_OnlyNewAlbums ==
    /\ \A i \in DOMAIN new_tracks :
          /\ new_tracks[i].release_date >= threshold_date
          /\ \E a \in Range(album_calls) :
                /\ new_tracks[i].release_date = ClaimDate(a)
                /\ new_tracks[i].album_type = Album(a).album_type
    /\ \A a \in Range(date_evals) :
          a \in Range(album_calls) <=> ClaimDate(a) >= threshold_date

\* C2 witness: one run expands an album dated on the threshold date and leaves
\* out an album dated the day before.
C2_Witness ==
    /\ pc = "sort_tracks"
    /\ \E a \in Range(album_calls) : ClaimDate(a) = threshold_date
    /\ \E b \in Range(date_evals) :
          ClaimDate(b) = threshold_date - 1 /\ b \notin Range(album_calls)

\* C3: for ascending and descending order the sorted list is a permutation of
\* the input, no album-type track precedes a single-type track, and within a
\* type the release dates run in the requested direction.
C3_SinglesFirst ==
    (pc = "update" /\ sort_order \in {"ascending", "descending"}) =>
        /\ Len(track_list) = Len(new_tracks)
        /\ \A x \in Range(new_tracks) : Count(track_list, x) = Count(new_tracks, x)
        /\ \A i, j \in DOMAIN track_list :
              i < j =>
                 /\ ~(track_list[i].album_type = "album"
                        /\ track_list[j].album_type = "single")
                 /\ track_list[i].album_type = track_list[j].album_type =>
                       IF sort_order = "ascending"
                       THEN track_list[i].release_date <= track_list[j].release_date
                       ELSE track_list[i].release_date >= track_list[j].release_date

\* C3 witness: an ascending sort of three tracks, singles and albums mixed,
\* that had to move a track.
C3_Witness ==
    /\ pc = "update"
    /\ sort_order = "ascending"
    /\ Len(track_list) = MaxSortLen
    /\ track_list # new_tracks
    /\ {track_list[i].album_type : i \in DOMAIN track_list} = {"single", "album"}

\* C4: once update_playlist has replaced the playlist's items, the playlist
\* holds the track ids of the final list, in order, each id once.
C4_PlaylistDeduplicated ==
    api_calls # <<>> =>
        /\ NoDup(playlist_items)
        /\ Range(playlist_items) = {track_list[i].id : i \in DOMAIN track_list}

\* C5: in a dry run, and in a run whose sorted track list is empty, no playlist
\* call is made and the destination playlist keeps its items and its title.
C5_PlaylistUntouched ==
    (dry_run \/ ("track_list" \in attrs /\ track_list = <<>>)) =>
        /\ api_calls = <<>>
        /\ playlist_items = PriorItems
        /\ playlist_title = PriorTitle
        /\ pc # "update_playlist"

\* C5 witness: a dry run that found tracks and wrote the report has ended.
C5_Witness ==
    /\ pc = "done"
    /\ dry_run
    /\ csv_file # <<>>
    /\ has_playlist_id

\* The offset for --days 0 by weekday of today, Monday = 0 ... Sunday = 6.
ExpectedOffset(w) ==
    CASE w = 0 -> 10 [] w = 1 -> 11 [] w = 2 -> 12 [] w = 3 -> 13
      [] w = 4 -> 7 [] w = 5 -> 8 [] w = 6 -> 9

\* C6: get_threshold_date, for days = 0, goes back ((weekday - 4) mod 7) + 7
\* days (7 on a Friday, 10 on a Monday, always 7..13) to a Friday; for
\* days > 0 it goes back `days` days.
C6_ThresholdDate ==
    [][GetThresholdDate =>
          /\ today' = clock
          /\ days = 0 =>
                /\ days' = ExpectedOffset(Weekday(clock))
                /\ days' \in 7..13
                /\ threshold_date' = clock - days'
                /\ Weekday(threshold_date') = 4
          /\ days > 0 =>
                /\ days' = days
                /\ threshold_date' = clock - days]_vars

\* C6 witness: get_threshold_date has run with days = 0 on Monday 2027-01-04,
\* and on the Friday before it.
C6_Witness ==
    /\ pc = "load_artists"
    /\ today = ToOrdinal(2027, 1, 4)
    /\ Weekday(today) = 0
    /\ days = 10
    /\ FromOrdinal(threshold_date) = <<2026, 12, 25>>

\* The run has met the empty-cohort / zero-result case: the artist search or
\* file gave no artist, or the search through the cohort found no track.
ZeroResult ==
    \/ "artist_list" \in attrs /\ artist_list = <<>>
    \/ /\ "artist_list" \in attrs
       /\ pc \in {"sort_tracks", "update", "done"}
       /\ new_tracks = <<>>

\* C7: in the empty-cohort / zero-result case the run raises nothing and
\* makes no playlist call.
C7_ZeroResultCompletes ==
    ZeroResult => (pc # "raised" /\ error = "none" /\ api_calls = <<>>)

\* C8 as claimed: every album met by the for-album loop and not expanded,
\* being too old or a compilation, is in searched_ids, and no album's date is
\* looked at twice.
C8_SkippedAreSearched ==
    /\ \A a \in listed :
          (IsCompilation(Album(a)) \/ ClaimDate(a) < threshold_date) =>
              a \in Range(searched_ids)
    /\ NoDup(date_evals)

\* C8 as amended: an album met by the for-album loop is in searched_ids exactly
\* when it is neither a compilation nor a "navid" album (too old or not);
\* the albums whose date was looked at are the searched ones, each once.
C8_Amended ==
    /\ \A a \in listed :
          a \in Range(searched_ids) <=>
              ~(IsCompilation(Album(a)) \/ Contains(navid, Lower(Album(a).name)))
    /\ Range(searched_ids) \subseteq listed
    /\ date_evals = searched_ids
    /\ NoDup(date_evals)

\* C8 witness: a too-old album was reached again under a later artist, and a
\* compilation was met.
C8_Witness ==
    /\ pc = "sort_tracks"
    /\ \E a \in relisted :
          /\ a \in Range(searched_ids)
          /\ a \notin Range(album_calls)
          /\ ClaimDate(a) < threshold_date
    /\ \E c \in listed : IsCompilation(Album(c))

RECURSIVE PagesItems(_)
\* The items of the fetched pages, concatenated.
PagesItems(fetched) ==
    IF fetched = <<>> THEN <<>> ELSE Head(fetched).items \o PagesItems(Tail(fetched))

\* C9: while an artist's albums are listed, every fetched page but the last
\* is full, the listing goes on only after a full page, it stops at a page
\* that is short or has no next page, and the albums gone through are the
\* fetched pages concatenated.
C9_PagingStops ==
    /\ Len(pages) <= MaxPages
    /\ \A i \in 1..(Len(pages) - 1) :
          Len(pages[i].items) = batch_size /\ pages[i].next
    /\ pages # <<>> => albums = PagesItems(pages)
    /\ pc = "next_page" => Len(pages[Len(pages)].items) = batch_size
    /\ pc = "for_album" =>
          \/ Len(pages[Len(pages)].items) < batch_size
          \/ ~pages[Len(pages)].next

\* C9 witness: a full first page was followed by a page of batch_size - 1.
C9_Witness ==
    /\ pc = "for_album"
    /\ Len(pages) = 2
    /\ Len(pages[1].items) = batch_size
    /\ Len(pages[2].items) = batch_size - 1
    /\ Len(albums) = 2 * batch_size - 1

\* C10: update_csv and update_playlist are reached only after
\* get_threshold_date has set the threshold date and the playlist name.
C10_ThresholdBeforeUpdate ==
    (\/ pc = "update" /\ Len(track_list) # 0
     \/ pc = "update_playlist"
     \/ csv_file # <<>>
     \/ api_calls # <<>>) =>
        {"threshold_date", "playlist_name"} \subseteq attrs

====
